---- MODULE Spec2Model ----
(***************************************************************************)
(* rerss: an HTTP proxy that fetches a feed, keeps the items whose title   *)
(* passes a regex or a skip-word predicate, and re-emits them as RSS.      *)
(* The model follows src/main.go: indexHandler and writeFilteredRSS, one   *)
(* handler invocation (goroutine) per request.                             *)
(***************************************************************************)
EXTENDS Integers, Sequences, FiniteSets, TLC

\* ------------------------------------------------------------------ bounds
NumRequests == 2
MaxItems == 2
MaxTitleLen == 3

Requests == 1..NumRequests

\* ------------------------------------------------------------- input sets
\* Characters of titles and skip words; " " and "\t" are whitespace.
Chars == {"a", "A", "b", " "}
WhiteSpace == {" ", "\t"}

\* Titles of the items of the feeds the upstream serves.
Titles ==
  { <<"a">>, <<"a", "b">>, <<"b", " ", "\t", "a">>, <<"A">> }

\* Every title up to MaxTitleLen characters (used to probe predicates).
AllTitles ==
  UNION { [1..n -> Chars] : n \in 0..MaxTitleLen }

\* Values of the `re` parameter: "", "a", "^b", "(a)", "(".
Patterns ==
  { <<>>, <<"a">>, <<"^", "b">>, <<"(", "a", ")">>, <<"(">> }

\* Values of the repeated `skip` parameter (a present key has >= 1 value).
SkipLists ==
  { << <<>> >>, << <<"a">> >>, << <<"b">>, <<"A">> >>, << <<"b", " ", "a">> >> }

\* A parsed query.  `other` stands for a parameter the handler never reads.
Queries ==
  { q \in [hasRe : BOOLEAN, re : Patterns, hasSkip : BOOLEAN,
           skip : SkipLists \cup {<<>>}, hasUrl : BOOLEAN, other : BOOLEAN] :
      /\ ~q.hasRe => q.re = <<>>
      /\ q.hasSkip <=> q.skip # <<>>
      /\ q.other => ~q.hasRe /\ ~q.hasSkip }

NoQuery ==
  [hasRe |-> FALSE, re |-> <<>>, hasSkip |-> FALSE, skip |-> <<>>,
   hasUrl |-> FALSE, other |-> FALSE]

\* A gofeed item: PublishedParsed and Author are pointers that may be nil.
Items ==
  [title : Titles, published : BOOLEAN, author : BOOLEAN]

Feeds ==
  UNION { [1..n -> Items] : n \in 0..MaxItems }

FetchErrors ==
  {"transport error", "http error: 404 Not Found", "Failed to detect feed type"}

\* What gofeed's ParseURL returns: a feed or an error.
Upstreams ==
  { [ok |-> TRUE, err |-> "", items |-> f] : f \in Feeds } \cup
  { [ok |-> FALSE, err |-> e, items |-> <<>>] : e \in FetchErrors }

NoUpstream ==
  [ok |-> TRUE, err |-> "", items |-> <<>>]

\* Inputs of the concurrent specification.
ConcQueries ==
  { [NoQuery EXCEPT !.hasRe = TRUE, !.re = <<"a">>, !.hasUrl = TRUE],
    [NoQuery EXCEPT !.hasSkip = TRUE, !.skip = << <<"a">> >>, !.hasUrl = TRUE],
    [NoQuery EXCEPT !.hasRe = TRUE, !.re = <<"(">>, !.hasUrl = TRUE] }

ConcUpstreams ==
  { [ok |-> TRUE, err |-> "",
     items |-> << [title |-> <<"a">>, published |-> TRUE, author |-> TRUE],
                  [title |-> <<"A">>, published |-> TRUE, author |-> TRUE] >>],
    [ok |-> TRUE, err |-> "",
     items |-> << [title |-> <<"A">>, published |-> FALSE, author |-> TRUE] >>],
    [ok |-> FALSE, err |-> "transport error", items |-> <<>>] }

\* ---------------------------------------------------------------- state
VARIABLES
  pc,        \* position of each handler invocation
  query,     \* r.URL.Query() of each request
  keepItem,  \* the keepItem closure, per variable slot
  upstream,  \* what ParseURL returned
  filtered,  \* filteredFeed.Items
  err,       \* the error writeFilteredRSS returned
  status,    \* response status (0: no header written)
  body,      \* response body written so far
  fetched,   \* an upstream fetch was started
  wfailed,   \* a write to the response stream failed
  wcalls,    \* number of times the handler called into the response writer
  panicked   \* the handler panicked (net/http aborts the connection)

vars ==
  <<pc, query, keepItem, upstream, filtered, err, status, body, fetched,
    wfailed, wcalls, panicked>>

StatusOK == 200
StatusBadRequest == 400
StatusInternalServerError == 500

NoPredicate ==
  [mode |-> "none", re |-> <<>>, skips |-> <<>>]

EmptyBody ==
  [html |-> FALSE, head |-> FALSE, items |-> <<>>, text |-> <<>>]

\* ------------------------------------------------------------ predicates
\* regexp.Compile over the fragment {literal, ^, ( )}: fails on unbalanced
\* parentheses.
RECURSIVE ParenDepth(_, _, _)
ParenDepth(p, k, d) ==
  IF d < 0 THEN d
  ELSE IF k > Len(p) THEN d
  ELSE IF p[k] = "(" THEN ParenDepth(p, k + 1, d + 1)
  ELSE IF p[k] = ")" THEN ParenDepth(p, k + 1, d - 1)
  ELSE ParenDepth(p, k + 1, d)

RegexpCompileOk(p) ==
  ParenDepth(p, 1, 0) = 0

\* Match pattern p from element k at position i of title t.
RECURSIVE MatchHere(_, _, _, _)
MatchHere(p, k, t, i) ==
  IF k > Len(p) THEN TRUE
  ELSE IF p[k] \in {"(", ")"} THEN MatchHere(p, k + 1, t, i)
  ELSE IF p[k] = "^" THEN i = 1 /\ MatchHere(p, k + 1, t, i)
  ELSE i <= Len(t) /\ t[i] = p[k] /\ MatchHere(p, k + 1, t, i + 1)

\* regex.MatchString: unanchored search.
MatchString(p, t) ==
  \E i \in 1..(Len(t) + 1) : MatchHere(p, 1, t, i)

\* strings.Fields: the maximal runs of non-whitespace characters.
RECURSIVE FieldsFrom(_, _, _, _)
FieldsFrom(t, i, cur, acc) ==
  IF i > Len(t) THEN (IF cur = <<>> THEN acc ELSE Append(acc, cur))
  ELSE IF t[i] \in WhiteSpace
       THEN FieldsFrom(t, i + 1, <<>>, IF cur = <<>> THEN acc ELSE Append(acc, cur))
       ELSE FieldsFrom(t, i + 1, Append(cur, t[i]), acc)

Fields(t) ==
  FieldsFrom(t, 1, <<>>, <<>>)

SlicesContains(s, w) ==
  \E k \in 1..Len(s) : s[k] = w

SkipKeepSubstring(skips, contents) ==
  ~\E k \in 1..Len(skips) :
      \E i \in 1..Len(contents), j \in 1..Len(contents) :
          i <= j /\ SubSeq(contents, i, j) = skips[k]

\* The skip closure of lines 61-68.
SkipKeep(skips, contents) ==
  LET words == Fields(contents)
  IN  \A k \in 1..Len(words) : ~SlicesContains(skips, words[k])

\* Calling the keepItem closure c on a title.
KeepItem(c, title) ==
  IF c.mode = "regex" THEN MatchString(c.re, title)
  ELSE SkipKeep(c.skips, title)

\* --------------------------------------------------------- indexHandler
QueryLen(q) ==
  Cardinality({ k \in {"re", "skip", "url", "other"} :
                  \/ k = "re" /\ q.hasRe
                  \/ k = "skip" /\ q.hasSkip
                  \/ k = "url" /\ q.hasUrl
                  \/ k = "other" /\ q.other })

BuildPredicateSkipFirst(q) ==
  IF q.hasSkip
  THEN [err |-> "", keep |-> [mode |-> "skip", re |-> <<>>, skips |-> q.skip]]
  ELSE IF q.hasRe
  THEN IF RegexpCompileOk(q.re)
       THEN [err |-> "", keep |-> [mode |-> "regex", re |-> q.re, skips |-> <<>>]]
       ELSE [err |-> "error parsing regexp", keep |-> NoPredicate]
  ELSE [err |-> "missing 'skip' or 're'", keep |-> NoPredicate]

\* Lines 51-72: choose the filter mode and build the predicate.
BuildPredicate(q) ==
  IF q.hasRe
  THEN IF RegexpCompileOk(q.re)
       THEN [err |-> "", keep |-> [mode |-> "regex", re |-> q.re, skips |-> <<>>]]
       ELSE [err |-> "error parsing regexp", keep |-> NoPredicate]
  ELSE IF q.hasSkip
  THEN [err |-> "", keep |-> [mode |-> "skip", re |-> <<>>, skips |-> q.skip]]
  ELSE [err |-> "missing 'skip' or 're'", keep |-> NoPredicate]

HasUrlAlways(q) ==
  TRUE

\* query.Has("url"), line 74.
HasUrl(q) ==
  q.hasUrl

CheckQueryUrlFirst(q) ==
  IF ~HasUrl(q) THEN "missing 'url'" ELSE BuildPredicate(q).err

\* Lines 51-77: the text of the 400 response, "" when the query is accepted.
CheckQuery(q) ==
  IF BuildPredicate(q).err # "" THEN BuildPredicate(q).err
  ELSE IF ~HasUrl(q) THEN "missing 'url'"
  ELSE ""

KeepItemVarShared(r) ==
  CHOOSE s \in Requests : \A u \in Requests : s <= u

\* keepItem is declared inside indexHandler (line 51): every invocation
\* has its own variable.
KeepItemVar(r) ==
  r

\* http.Error on a response: the status is set unless a header was already
\* written, then the text is written to the body.
HttpError(resp, text, code) ==
  [status |-> IF resp.status = 0 THEN code ELSE resp.status,
   body |-> [resp.body EXCEPT !.text = Append(@, text)]]

\* Lines 44-78: the handler up to the call of writeFilteredRSS.
Serve(r, q) ==
  /\ pc[r] = "idle"
  /\ query' = [query EXCEPT ![r] = q]
  /\ IF QueryLen(q) = 0
     THEN /\ status' = [status EXCEPT ![r] = StatusOK]
          /\ body' = [body EXCEPT ![r] = [@ EXCEPT !.html = TRUE]]
          /\ wcalls' = [wcalls EXCEPT ![r] = @ + 1]
          /\ pc' = [pc EXCEPT ![r] = "done"]
          /\ UNCHANGED keepItem
     ELSE /\ keepItem' = [keepItem EXCEPT ![KeepItemVar(r)] = BuildPredicate(q).keep]
          /\ IF CheckQuery(q) # ""
             THEN LET resp == HttpError([status |-> status[r], body |-> body[r]],
                                        CheckQuery(q), StatusBadRequest)
                  IN  /\ status' = [status EXCEPT ![r] = resp.status]
                      /\ body' = [body EXCEPT ![r] = resp.body]
                      /\ wcalls' = [wcalls EXCEPT ![r] = @ + 1]
                      /\ pc' = [pc EXCEPT ![r] = "done"]
             ELSE /\ pc' = [pc EXCEPT ![r] = "fetch"]
                  /\ UNCHANGED <<status, body, wcalls>>
  /\ UNCHANGED <<upstream, filtered, err, fetched, wfailed, panicked>>

\* ------------------------------------------------------- writeFilteredRSS
AfterParseURLIgnoreErr(u) ==
  "transform"

\* Lines 88-90: return the error of ParseURL.
AfterParseURL(u) ==
  IF u.ok THEN "transform" ELSE "error"

\* Line 87: gofeed.NewParser().ParseURL(rssURL) returns u.
Fetch(r, u) ==
  /\ pc[r] = "fetch"
  /\ fetched' = [fetched EXCEPT ![r] = TRUE]
  /\ upstream' = [upstream EXCEPT ![r] = u]
  /\ err' = [err EXCEPT ![r] = IF AfterParseURL(u) = "error" THEN u.err ELSE @]
  /\ pc' = [pc EXCEPT ![r] = AfterParseURL(u)]
  /\ UNCHANGED <<query, keepItem, filtered, status, body, wfailed, wcalls, panicked>>

\* Lines 104-110: the feeds.Item built from a kept item.
NewItem(item) ==
  [title |-> item.title, author |-> item.author, created |-> item.published]

RECURSIVE FilterFromPrepend(_, _, _, _)
FilterFromPrepend(items, c, i, acc) ==
  IF i > Len(items) THEN [panic |-> FALSE, items |-> acc]
  ELSE IF KeepItem(c, items[i].title)
       THEN IF ~items[i].author \/ ~items[i].published
            THEN [panic |-> TRUE, items |-> <<>>]
            ELSE FilterFromPrepend(items, c, i + 1, <<NewItem(items[i])>> \o acc)
       ELSE FilterFromPrepend(items, c, i + 1, acc)

RECURSIVE FilterFromEager(_, _, _, _)
FilterFromEager(items, c, i, acc) ==
  IF i > Len(items) THEN [panic |-> FALSE, items |-> acc]
  ELSE IF ~items[i].author \/ ~items[i].published
       THEN [panic |-> TRUE, items |-> <<>>]
       ELSE IF KeepItem(c, items[i].title)
            THEN FilterFromEager(items, c, i + 1, Append(acc, NewItem(items[i])))
            ELSE FilterFromEager(items, c, i + 1, acc)

\* Lines 101-112: the loop over originalFeed.Items from index i.  Reading
\* item.Author.Name or *item.PublishedParsed of a kept item panics when the
\* pointer is nil.
RECURSIVE FilterFrom(_, _, _, _)
FilterFrom(items, c, i, acc) ==
  IF i > Len(items) THEN [panic |-> FALSE, items |-> acc]
  ELSE IF KeepItem(c, items[i].title)
       THEN IF ~items[i].author \/ ~items[i].published
            THEN [panic |-> TRUE, items |-> <<>>]
            ELSE FilterFrom(items, c, i + 1, Append(acc, NewItem(items[i])))
       ELSE FilterFrom(items, c, i + 1, acc)

\* Lines 92-112: build filteredFeed.  A panic unwinds the handler; net/http
\* recovers it and closes the connection without writing a response.
Transform(r) ==
  /\ pc[r] = "transform"
  /\ LET res == FilterFrom(upstream[r].items, keepItem[KeepItemVar(r)], 1, <<>>)
     IN  IF res.panic
         THEN /\ panicked' = [panicked EXCEPT ![r] = TRUE]
              /\ pc' = [pc EXCEPT ![r] = "done"]
              /\ UNCHANGED filtered
         ELSE /\ filtered' = [filtered EXCEPT ![r] = res.items]
              /\ pc' = [pc EXCEPT ![r] = "write"]
              /\ UNCHANGED panicked
  /\ UNCHANGED <<query, keepItem, upstream, err, status, body, fetched, wfailed, wcalls>>

\* Line 114: filteredFeed.WriteRss(w).  The document is the channel head
\* followed by the items; the stream takes the first n parts and then, if
\* parts remain, fails.  The first Write sets the status to 200.
WriteRss(r, n) ==
  /\ pc[r] = "write"
  /\ n \in 0..(Len(filtered[r]) + 1)
  /\ status' = [status EXCEPT ![r] = StatusOK]
  /\ wcalls' = [wcalls EXCEPT ![r] = @ + 1]
  /\ body' = [body EXCEPT ![r] =
                [@ EXCEPT !.head = (n >= 1),
                          !.items = IF n >= 2 THEN SubSeq(filtered[r], 1, n - 1)
                                    ELSE <<>>]]
  /\ IF n = Len(filtered[r]) + 1
     THEN /\ pc' = [pc EXCEPT ![r] = "done"]
          /\ UNCHANGED <<err, wfailed>>
     ELSE /\ pc' = [pc EXCEPT ![r] = "error"]
          /\ err' = [err EXCEPT ![r] = "write error"]
          /\ wfailed' = [wfailed EXCEPT ![r] = TRUE]
  /\ UNCHANGED <<query, keepItem, upstream, filtered, fetched, panicked>>

\* Lines 81-83: any error of writeFilteredRSS goes to http.Error.  A stream
\* that has already failed may or may not take the text.
HandleErr(r, accepted) ==
  /\ pc[r] = "error"
  /\ accepted \/ wfailed[r]
  /\ LET resp == HttpError([status |-> status[r], body |-> body[r]],
                           err[r], StatusInternalServerError)
     IN  /\ status' = [status EXCEPT ![r] = resp.status]
         /\ body' = [body EXCEPT ![r] = IF accepted THEN resp.body ELSE @]
  /\ wcalls' = [wcalls EXCEPT ![r] = @ + 1]
  /\ pc' = [pc EXCEPT ![r] = "done"]
  /\ UNCHANGED <<query, keepItem, upstream, filtered, err, fetched, wfailed, panicked>>

\* ------------------------------------------------------- specifications
Init ==
  /\ pc = [r \in Requests |-> "idle"]
  /\ query = [r \in Requests |-> NoQuery]
  /\ keepItem = [r \in Requests |-> NoPredicate]
  /\ upstream = [r \in Requests |-> NoUpstream]
  /\ filtered = [r \in Requests |-> <<>>]
  /\ err = [r \in Requests |-> ""]
  /\ status = [r \in Requests |-> 0]
  /\ body = [r \in Requests |-> EmptyBody]
  /\ fetched = [r \in Requests |-> FALSE]
  /\ wfailed = [r \in Requests |-> FALSE]
  /\ wcalls = [r \in Requests |-> 0]
  /\ panicked = [r \in Requests |-> FALSE]

\* One invocation of indexHandler for request r, inputs from Q and U.
Handler(r, Q, U) ==
  \/ \E q \in Q : Serve(r, q)
  \/ \E u \in U : Fetch(r, u)
  \/ Transform(r)
  \/ \E n \in 0..(MaxItems + 1) : WriteRss(r, n)
  \/ \E accepted \in BOOLEAN : HandleErr(r, accepted)

FirstRequest ==
  CHOOSE r \in Requests : \A s \in Requests : r <= s

\* One request, every input.
Next ==
  Handler(FirstRequest, Queries, Upstreams)

Spec ==
  Init /\ [][Next]_vars

\* Every request concurrently, inputs from the representative sets.
NextConc ==
  \E r \in Requests : Handler(r, ConcQueries, ConcUpstreams)

SpecConc ==
  Init /\ [][NextConc]_vars

\* ------------------------------------------------------------ properties
\* The request went through writeFilteredRSS and WriteRss returned nil.
Succeeded(r) ==
  /\ pc[r] = "done"
  /\ fetched[r]
  /\ upstream[r].ok
  /\ ~panicked[r]
  /\ ~wfailed[r]

\* The request has reached the call of writeFilteredRSS.
ReachedFetch(r) ==
  pc[r] \in {"fetch", "transform", "write", "error"} \/ fetched[r]

\* The loop over the items has finished (normally or by a panic).
Transformed(r) ==
  fetched[r] /\ upstream[r].ok /\ pc[r] \in {"write", "error", "done"}

\* The items of a feed accepted by closure c, in feed order.
Accepted(c, items) ==
  LET Test(item) == KeepItem(c, item.title)
  IN  SelectSeq(items, Test)

\* The whitespace-delimited tokens of a title, stated directly: the
\* maximal segments without whitespace.
Tokens(t) ==
  { SubSeq(t, i, j) : <<i, j>> \in
      { x \in (1..Len(t)) \X (1..Len(t)) :
          /\ x[1] <= x[2]
          /\ \A k \in x[1]..x[2] : t[k] \notin WhiteSpace
          /\ x[1] = 1 \/ t[x[1] - 1] \in WhiteSpace
          /\ x[2] = Len(t) \/ t[x[2] + 1] \in WhiteSpace } }

\* C1: when writeFilteredRSS succeeds, the items written are exactly the
\* source items whose title satisfies the predicate, in source order, none
\* duplicated, inserted or re-ordered, so the output is no longer than the
\* source.
C1_OutputIsFilteredSubsequence ==
  \A r \in Requests :
    Succeeded(r) =>
      LET kept == Accepted(keepItem[r], upstream[r].items)
      IN  /\ body[r].items = [k \in 1..Len(kept) |-> NewItem(kept[k])]
          /\ Len(body[r].items) <= Len(upstream[r].items)

C1_Witness ==
  \E r \in Requests :
    /\ Succeeded(r)
    /\ Len(upstream[r].items) = 2
    /\ Len(body[r].items) = 1
    /\ body[r].items[1].title = upstream[r].items[2].title

\* C2: in skip mode the predicate keeps a title iff no whitespace-delimited
\* token of it is exactly equal to a skip word (case-sensitive, whole token);
\* a skip list matching no token keeps the title.
C2_SkipKeepsIffNoTokenIsSkipWord ==
  \A r \in Requests :
    keepItem[r].mode = "skip" =>
      \A t \in AllTitles \cup Titles :
        KeepItem(keepItem[r], t) <=>
          ~\E w \in Tokens(t) : \E k \in 1..Len(query[r].skip) : query[r].skip[k] = w

C2_Witness ==
  \E r \in Requests :
    /\ Succeeded(r)
    /\ keepItem[r].mode = "skip"
    /\ query[r].skip = << <<"a">> >>
    /\ Len(upstream[r].items) = 2
    /\ upstream[r].items[1].title = <<"a", "b">>
    /\ upstream[r].items[2].title = <<"b", " ", "\t", "a">>
    /\ Len(body[r].items) = 1
    /\ body[r].items[1].title = <<"a", "b">>

\* C3: a request that reaches the fetch step has exactly one filter mode,
\* which stays as chosen: the regex predicate of `re` whenever `re` is
\* present (even with `skip`), the skip predicate only when `re` is absent
\* and `skip` is present.
C3_ExactlyOneModeReWins ==
  \A r \in Requests :
    ReachedFetch(r) =>
      /\ keepItem[r].mode \in {"regex", "skip"}
      /\ query[r].hasRe =>
           keepItem[r] = [mode |-> "regex", re |-> query[r].re, skips |-> <<>>]
      /\ keepItem[r].mode = "skip" <=> (~query[r].hasRe /\ query[r].hasSkip)
      /\ keepItem[r].mode = "skip" =>
           keepItem[r] = [mode |-> "skip", re |-> <<>>, skips |-> query[r].skip]

C3_Witness ==
  \E r \in Requests :
    /\ Succeeded(r)
    /\ query[r].hasRe
    /\ query[r].hasSkip
    /\ keepItem[r].mode = "regex"

\* The query is one of the client-input errors.
ClientError(q) ==
  \/ ~q.hasUrl
  \/ ~q.hasRe /\ ~q.hasSkip
  \/ q.hasRe /\ ~RegexpCompileOk(q.re)

\* C4: a request with a non-empty query in which url is missing, or neither
\* re nor skip is present, or re does not compile, is answered 400 and never
\* starts an upstream fetch.
C4_ClientErrorIs400BeforeFetch ==
  \A r \in Requests :
    (pc[r] # "idle" /\ QueryLen(query[r]) > 0 /\ ClientError(query[r])) =>
      /\ pc[r] = "done"
      /\ status[r] = StatusBadRequest
      /\ ~fetched[r]

C4_Witness ==
  \E r \in Requests :
    /\ pc[r] = "done"
    /\ query[r].hasRe
    /\ RegexpCompileOk(query[r].re)
    /\ ~query[r].hasUrl
    /\ status[r] = StatusBadRequest
    /\ ~fetched[r]

\* The handler's messages that mention url.
MentionsUrl(text) ==
  text = "missing 'url'"

\* The filter mode of the query resolves to a predicate.
FilterResolves(q) ==
  \/ q.hasRe /\ RegexpCompileOk(q.re)
  \/ ~q.hasRe /\ q.hasSkip

\* C5 as stated: a request with a non-empty query and no url is answered
\* 400 with a body that mentions url, whatever re and skip are.
C5_Original ==
  \A r \in Requests :
    (pc[r] = "done" /\ QueryLen(query[r]) > 0 /\ ~query[r].hasUrl) =>
      /\ status[r] = StatusBadRequest
      /\ Len(body[r].text) = 1
      /\ MentionsUrl(body[r].text[1])

\* C5 amended: a request with a non-empty query and no url is answered 400;
\* the filter mode is validated first, so the body mentions url exactly when
\* the filter mode resolves, and is the filter error otherwise.
C5_MissingUrlIs400FilterFirst ==
  \A r \in Requests :
    (pc[r] = "done" /\ QueryLen(query[r]) > 0 /\ ~query[r].hasUrl) =>
      /\ status[r] = StatusBadRequest
      /\ Len(body[r].text) = 1
      /\ MentionsUrl(body[r].text[1]) <=> FilterResolves(query[r])
      /\ (query[r].hasRe /\ ~RegexpCompileOk(query[r].re)) =>
           body[r].text[1] = "error parsing regexp"
      /\ (~query[r].hasRe /\ ~query[r].hasSkip) =>
           body[r].text[1] = "missing 'skip' or 're'"

C5_Witness ==
  \E r \in Requests :
    /\ pc[r] = "done"
    /\ ~query[r].hasUrl
    /\ query[r].hasRe
    /\ ~RegexpCompileOk(query[r].re)
    /\ status[r] = StatusBadRequest
    /\ body[r].text = <<"error parsing regexp">>

\* C6: when the upstream fetch or parse fails, the request is answered 500
\* with the error text and no byte of RSS is written.
C6_UpstreamFailureIs500NoRss ==
  \A r \in Requests :
    (pc[r] = "done" /\ fetched[r] /\ ~upstream[r].ok) =>
      /\ status[r] = StatusInternalServerError
      /\ body[r].text = <<upstream[r].err>>
      /\ ~body[r].head
      /\ body[r].items = <<>>

C6_Witness ==
  \E r \in Requests :
    /\ pc[r] = "done"
    /\ fetched[r]
    /\ upstream[r].err = "http error: 404 Not Found"
    /\ status[r] = StatusInternalServerError

\* C7 as stated: when an accepted item has no parsed publication timestamp
\* the request ends with a 500 response and no RSS is emitted.
C7_MissingDateIs500 ==
  \A r \in Requests :
    ( /\ pc[r] = "done"
      /\ fetched[r]
      /\ upstream[r].ok
      /\ \E i \in 1..Len(upstream[r].items) :
           /\ KeepItem(keepItem[r], upstream[r].items[i].title)
           /\ ~upstream[r].items[i].published ) =>
      /\ status[r] = StatusInternalServerError
      /\ ~body[r].head
      /\ body[r].items = <<>>

\* The outcome a request's own query and upstream response determine.
ExpectedKeep(q, t) ==
  IF q.hasRe THEN MatchString(q.re, t)
  ELSE \A w \in Tokens(t) : \A k \in 1..Len(q.skip) : q.skip[k] # w

ExpectedItems(q, u) ==
  LET Test(item) == ExpectedKeep(q, item.title)
      kept == SelectSeq(u.items, Test)
  IN  [k \in 1..Len(kept) |-> NewItem(kept[k])]

ExpectedStatus(q, u) ==
  IF QueryLen(q) = 0 THEN StatusOK
  ELSE IF ClientError(q) THEN StatusBadRequest
  ELSE IF ~u.ok THEN StatusInternalServerError
  ELSE IF \E i \in 1..Len(u.items) :
            /\ ExpectedKeep(q, u.items[i].title)
            /\ ~u.items[i].published \/ ~u.items[i].author
       THEN 0
       ELSE StatusOK

\* C8: under any interleaving, the status of a request and the items
\* written for it are those its own query and its own upstream response
\* determine.
C8_OutcomeDependsOnOwnRequest ==
  \A r \in Requests :
    pc[r] = "done" =>
      /\ status[r] = ExpectedStatus(query[r], upstream[r])
      /\ ~wfailed[r] =>
           body[r].items =
             IF fetched[r] /\ status[r] = StatusOK
             THEN ExpectedItems(query[r], upstream[r]) ELSE <<>>

C8_Witness ==
  \E r \in Requests, s \in Requests :
    /\ r # s
    /\ Succeeded(r)
    /\ body[r].items # <<>>
    /\ query[s] # query[r]
    /\ pc[s] = "done"
    /\ panicked[s]

\* C9 as stated: once a write to the response has failed, the handler
\* writes nothing more: no call into the response writer, no change of the
\* body or of the status.
C9_StopsWritingAfterFailure ==
  [][\A r \in Requests :
       wfailed[r] =>
         /\ body'[r] = body[r]
         /\ status'[r] = status[r]
         /\ wcalls'[r] = wcalls[r]]_vars

\* C10: a rejected item is never read: the result of the transform is the
\* result on the feed with the rejected items removed, and it succeeds when
\* every accepted item has a timestamp and an author.
C10_RejectedItemsDoNotMatter ==
  \A r \in Requests :
    Transformed(r) =>
      LET kept == Accepted(keepItem[r], upstream[r].items)
      IN  /\ FilterFrom(kept, keepItem[r], 1, <<>>) =
               [panic |-> panicked[r], items |-> filtered[r]]
          /\ (\A k \in 1..Len(kept) : kept[k].published /\ kept[k].author) =>
               ~panicked[r]

C10_Witness ==
  \E r \in Requests :
    /\ Succeeded(r)
    /\ Len(upstream[r].items) = 2
    /\ ~upstream[r].items[1].published
    /\ ~upstream[r].items[1].author
    /\ body[r].items = <<NewItem(upstream[r].items[2])>>

====
